---- MODULE Spec2Model ----
(***************************************************************************)
(* A model of compiler_front_end.py: the Lexer (a pattern-driven scanning  *)
(* loop over the remaining text) and the Parser (a recursive-descent       *)
(* walker over a token list with one cursor and an error list).            *)
(*                                                                         *)
(* The Parser is modelled as a stack machine.  Every Python frame of the   *)
(* walk is one entry of `stack`, holding the label of the statement the    *)
(* frame is at.  One step is one primitive (consume, match, error), one    *)
(* call or one return.  Python's recursion limit is part of the model,     *)
(* because Parser.parse catches every Exception, RecursionError included.  *)
(***************************************************************************)
EXTENDS Integers, Sequences, FiniteSets, TLC

VARIABLES
    tokens,         \* Parser.tokens: the token list handed to the Parser
    token_index,    \* Parser.token_index: the cursor
    current_token,  \* Parser.current_token: a token, or None
    errors,         \* Parser.errors: the error list
    stack,          \* the Python frames of the walk, parse() at the bottom
    result,         \* what parse() returned: "running", "success", "failure"
    faulted,        \* TRUE once parse()'s except clause has swallowed a fault
    reads,          \* the indices the last step subscripted Parser.tokens with
    base,           \* the Python frames under parse(): those of its caller
    earlier,        \* the runs of parse() on these tokens that have returned
    code,           \* Lexer.code: the remaining text
    lex_tokens,     \* Lexer.tokens: the tokens emitted so far
    lex_pc,         \* the statement Lexer.tokenize is at, "done" once returned
    source,         \* the text the Lexer was constructed with
    trail           \* what the scan loop removed from the text, in order

parser_vars == <<tokens, token_index, current_token, errors, stack, result, faulted,
                 reads, base, earlier>>
lexer_vars == <<code, lex_tokens, lex_pc, source, trail>>
vars == <<tokens, token_index, current_token, errors, stack, result, faulted,
          reads, base, earlier, code, lex_tokens, lex_pc, source, trail>>

(***************************************************************************)
(* Tokens.  A token is the Python pair (token_type, token_value); None is  *)
(* the empty tuple.                                                        *)
(***************************************************************************)
None == <<>>

Tok(t, v) == <<t, v>>

TokType(tok) == tok[1]

TokValue(tok) == tok[2]

KW(v) == Tok("KEYWORD", v)

ID(v) == Tok("IDENTIFIER", v)

OP(v) == Tok("OPERATOR", v)

PU(v) == Tok("PUNCTUATOR", v)

INT(v) == Tok("CONSTANT_INT", v)

FLT(v) == Tok("CONSTANT_FLOAT", v)

STR(v) == Tok("STRING_LITERAL", v)

TypeNames == {"int", "float", "double", "char"}

CompareOps == {"==", "!=", "<", ">", "<=", ">="}

(***************************************************************************)
(* Python frames.  parse() is called from the module's top level (line     *)
(* 326), so the module frame lies under the frames of `stack`.  CPython     *)
(* refuses the call that would make the frame depth exceed its recursion   *)
(* limit and raises RecursionError, an Exception.                           *)
(***************************************************************************)
BaseDepth == 1

RecursionLimit == 1000

Room(k) == base + Len(stack) + k <= RecursionLimit

Top == stack[Len(stack)]

Goto(label) == [stack EXCEPT ![Len(stack)] = label]

Return == SubSeq(stack, 1, Len(stack) - 1)

Call(label, callee) == Append(Goto(label), callee)

\* Python index i of the token list (TLA+ sequences start at 1).
TokenAt(i) == tokens[i + 1]

\* The error list of a walk that never ends grows without bound; the model
\* follows a walk until its list holds MaxErrors entries.
MaxErrors == 20

At(label) ==
    /\ result = "running"
    /\ stack # <<>>
    /\ Top = label
    /\ Len(errors) < MaxErrors

(***************************************************************************)
(* Error messages.  A message is kept as the parts its f-string is built   *)
(* from; error() puts the cursor in front.                                 *)
(***************************************************************************)
Message(text, expected_type, expected_value, found) ==
    [text |-> text, expected_type |-> expected_type,
     expected_value |-> expected_value, found |-> found]

Fixed(text) == Message(text, "", <<>>, None)

MatchMessage(expected_type, expected_value, found) ==
    Message("Expected", expected_type, expected_value, found)

UnexpectedToken(found) ==
    Message("Unexpected token after program end.", "", <<>>, found)

TypeExpected ==
    Fixed("Expected a Type (int, float, double, char).")

AssignmentOrOutputExpected ==
    Fixed("Expected AssignmentStatement or OutputStatement.")

AssignmentOrOutputAtEnd ==
    Fixed("Expected AssignmentStatement or OutputStatement, but found end of file.")

StatementExpected ==
    Fixed("Expected a valid Statement (Declaration, Assignment, If, Output, or Return).")

CompareOpExpected ==
    Fixed("Expected a Comparison Operator (==, !=, <, >, <=, >=).")

OutputItemAtEnd ==
    Fixed("Expected an Output Item (String, Identifier, or endl).")

OutputItemExpected ==
    Fixed("Expected a String Literal, Identifier, or 'endl'.")

FactorExpected ==
    Fixed("Expected Factor (Identifier, Constant, or '(' Expression ')').")

(***************************************************************************)
(* The cursor primitives: what each does to token_index, current_token and *)
(* errors.                                                                 *)
(***************************************************************************)
\* consume() as it would be if it skipped a token: the cursor moves by two.
consume_skipping ==
    /\ token_index' = token_index + 2
    /\ current_token' = IF token_index + 2 < Len(tokens)
                        THEN TokenAt(token_index + 2)
                        ELSE None
    /\ reads' = IF token_index + 2 < Len(tokens) THEN {token_index + 2} ELSE {}
    /\ UNCHANGED errors

\* consume() as it would be without its test of the cursor against the
\* length: it subscripts the token list wherever the cursor stands.
consume_unguarded ==
    /\ token_index' = token_index + 1
    /\ current_token' = IF token_index + 1 < Len(tokens)
                        THEN TokenAt(token_index + 1)
                        ELSE None
    /\ reads' = {token_index + 1}
    /\ UNCHANGED errors

consume ==
    /\ token_index' = token_index + 1
    /\ current_token' = IF token_index + 1 < Len(tokens)
                        THEN TokenAt(token_index + 1)
                        ELSE None
    /\ reads' = IF token_index + 1 < Len(tokens) THEN {token_index + 1} ELSE {}
    /\ UNCHANGED errors

\* error() as it would be if it kept the latest message only.
error_keeping_latest(message) ==
    /\ errors' = <<[index |-> token_index, message |-> message]>>
    /\ reads' = {}
    /\ UNCHANGED <<token_index, current_token>>

\* error() as it would be if it counted tokens from one.
error_one_based(message) ==
    /\ errors' = Append(errors, [index |-> token_index + 1, message |-> message])
    /\ reads' = {}
    /\ UNCHANGED <<token_index, current_token>>

\* error() as it would be if it moved the cursor on as well.
error_advancing(message) ==
    /\ errors' = Append(errors, [index |-> token_index, message |-> message])
    /\ token_index' = token_index + 1
    /\ current_token' = IF token_index + 1 < Len(tokens)
                        THEN TokenAt(token_index + 1)
                        ELSE None
    /\ reads' = IF token_index + 1 < Len(tokens) THEN {token_index + 1} ELSE {}

error(message) ==
    /\ errors' = Append(errors, [index |-> token_index, message |-> message])
    /\ reads' = {}
    /\ UNCHANGED <<token_index, current_token>>

\* match() as it would be if a call without a lexeme matched no token.
match_without_wildcard(expected_type, expected_value) ==
    IF current_token = None
    THEN error(MatchMessage(expected_type, expected_value, None))
    ELSE LET type_match == TokType(current_token) = expected_type
             value_match == /\ expected_value # <<>>
                            /\ TokValue(current_token) = expected_value[1]
         IN  IF type_match /\ value_match
             THEN consume
             ELSE error(MatchMessage(expected_type, expected_value, current_token))

\* match() as it would be without its test for the end of the input.
match_past_end(expected_type, expected_value) ==
    IF current_token = None
    THEN consume
    ELSE LET type_match == TokType(current_token) = expected_type
             value_match == \/ expected_value = <<>>
                            \/ TokValue(current_token) = expected_value[1]
         IN  IF type_match /\ value_match
             THEN consume
             ELSE error(MatchMessage(expected_type, expected_value, current_token))

match(expected_type, expected_value) ==
    IF current_token = None
    THEN error(MatchMessage(expected_type, expected_value, None))
    ELSE LET type_match == TokType(current_token) = expected_type
             value_match == \/ expected_value = <<>>
                            \/ TokValue(current_token) = expected_value[1]
         IN  IF type_match /\ value_match
             THEN consume
             ELSE error(MatchMessage(expected_type, expected_value, current_token))

\* An exception leaves the walk: every frame above parse() is dropped and
\* parse() continues in its except clause.
Raise ==
    /\ stack' = <<"parse_except">>
    /\ reads' = {}
    /\ UNCHANGED <<token_index, current_token, errors>>

\* A statement that needs k more frames, does `effect` and leaves the frames
\* as `next`.
Do(k, effect, next) ==
    IF Room(k) THEN effect /\ stack' = next ELSE Raise

Skip == reads' = {} /\ UNCHANGED <<token_index, current_token, errors>>

\* self.tokens[self.token_index + 1]: the lookahead of statement(), which
\* moves nothing.
Peek == reads' = {token_index + 1} /\ UNCHANGED <<token_index, current_token, errors>>

Enter(label, callee) == Do(1, Skip, Call(label, callee))

Frame ==
    UNCHANGED <<tokens, result, faulted, base, earlier,
                code, lex_tokens, lex_pc, source, trail>>

(***************************************************************************)
(* The grammar procedures, one action each.  A label names the statement a *)
(* frame is at; a procedure's last primitive and its return are one step.  *)
(***************************************************************************)
parse ==
    \/ /\ At("parse_0")
       /\ Enter("parse_1", "program_0")
       /\ Frame
    \/ /\ At("parse_1")
       /\ IF current_token # None
          THEN Do(1, error(UnexpectedToken(current_token)),
                  Goto("parse_return"))
          ELSE Skip /\ stack' = Goto("parse_return")
       /\ Frame
    \/ /\ At("parse_except")
       /\ faulted' = TRUE
       /\ stack' = Goto("parse_return")
       /\ Skip
       /\ UNCHANGED <<tokens, result, base, earlier,
                      code, lex_tokens, lex_pc, source, trail>>
    \/ /\ At("parse_return")
       /\ result' = IF errors = <<>> THEN "success" ELSE "failure"
       /\ stack' = Return
       /\ Skip
       /\ UNCHANGED <<tokens, faulted, base, earlier,
                      code, lex_tokens, lex_pc, source, trail>>

program ==
    \/ /\ At("program_0")
       /\ Enter("program_1", "function_definition_0")
       /\ Frame
    \/ /\ At("program_1")
       /\ Skip /\ stack' = Return
       /\ Frame

function_definition ==
    \/ /\ At("function_definition_0")
       /\ Enter("function_definition_1", "type_0")
       /\ Frame
    \/ /\ At("function_definition_1")
       /\ Do(2, match("IDENTIFIER", <<>>), Goto("function_definition_2"))
       /\ Frame
    \/ /\ At("function_definition_2")
       /\ Do(2, match("PUNCTUATOR", <<"(">>), Goto("function_definition_3"))
       /\ Frame
    \/ /\ At("function_definition_3")
       /\ Do(2, match("PUNCTUATOR", <<")">>), Goto("function_definition_4"))
       /\ Frame
    \/ /\ At("function_definition_4")
       /\ Enter("function_definition_5", "block_0")
       /\ Frame
    \/ /\ At("function_definition_5")
       /\ Skip /\ stack' = Return
       /\ Frame

type ==
    /\ At("type_0")
    /\ IF /\ current_token # None
          /\ TokType(current_token) = "KEYWORD"
          /\ TokValue(current_token) \in TypeNames
       THEN Do(1, consume, Return)
       ELSE Do(1, error(TypeExpected), Return)
    /\ Frame

block ==
    \/ /\ At("block_0")
       /\ Do(2, match("PUNCTUATOR", <<"{">>), Goto("block_1"))
       /\ Frame
    \/ /\ At("block_1")
       /\ Enter("block_2", "statement_list_0")
       /\ Frame
    \/ /\ At("block_2")
       /\ Do(2, match("PUNCTUATOR", <<"}">>), Return)
       /\ Frame

\* statement_list() as it would be without the test of the error list that
\* ends its loop.
statement_list_without_break ==
    \/ /\ At("statement_list_0")
       /\ IF current_token # None /\ TokValue(current_token) \notin {"}"}
          THEN Enter("statement_list_1", "statement_0")
          ELSE Skip /\ stack' = Return
       /\ Frame
    \/ /\ At("statement_list_1")
       /\ Skip
       /\ stack' = Goto("statement_list_2")
       /\ Frame
    \/ /\ At("statement_list_2")
       /\ IF current_token # None /\ TokValue(current_token) \notin {"}"}
          THEN Enter("statement_list_1", "statement_0")
          ELSE Skip /\ stack' = Return
       /\ Frame

\* statement_list() as it would be if its loop ended at the second entry of
\* the error list only.
statement_list_break_late ==
    \/ /\ At("statement_list_0")
       /\ IF current_token # None /\ TokValue(current_token) \notin {"}"}
          THEN Enter("statement_list_1", "statement_0")
          ELSE Skip /\ stack' = Return
       /\ Frame
    \/ /\ At("statement_list_1")
       /\ Skip
       /\ stack' = IF Len(errors) > 1 THEN Return ELSE Goto("statement_list_2")
       /\ Frame
    \/ /\ At("statement_list_2")
       /\ IF current_token # None /\ TokValue(current_token) \notin {"}"}
          THEN Enter("statement_list_1", "statement_0")
          ELSE Skip /\ stack' = Return
       /\ Frame

statement_list ==
    \/ /\ At("statement_list_0")
       /\ IF current_token # None /\ TokValue(current_token) \notin {"}"}
          THEN Enter("statement_list_1", "statement_0")
          ELSE Skip /\ stack' = Return
       /\ Frame
    \/ /\ At("statement_list_1")
       /\ Skip
       /\ stack' = IF errors # <<>> THEN Return ELSE Goto("statement_list_2")
       /\ Frame
    \/ /\ At("statement_list_2")
       /\ IF current_token # None /\ TokValue(current_token) \notin {"}"}
          THEN Enter("statement_list_1", "statement_0")
          ELSE Skip /\ stack' = Return
       /\ Frame

\* statement() as it would be if the error of an identifier that starts
\* neither an assignment nor an output fell through to the last else.
statement_falling_through ==
    \/ /\ At("statement_0")
       /\ IF current_token = None
          THEN Skip /\ stack' = Return
          ELSE LET token_type == TokType(current_token)
                   token_value == TokValue(current_token)
               IN
               IF token_type = "KEYWORD" /\ token_value \in TypeNames
               THEN Enter("statement_semicolon", "declaration_statement_0")
               ELSE IF token_type = "IDENTIFIER"
               THEN IF token_index + 1 < Len(tokens)
                    THEN Peek /\ stack' = Goto("statement_1")
                    ELSE Do(1, error(AssignmentOrOutputAtEnd),
                            Return)
               ELSE IF token_type = "KEYWORD" /\ token_value = "if"
               THEN Enter("statement_end", "if_statement_0")
               ELSE IF token_type = "KEYWORD" /\ token_value = "return"
               THEN Enter("statement_semicolon", "return_statement_0")
               ELSE Do(1, error(StatementExpected),
                       Goto("statement_consume"))
       /\ Frame
    \/ /\ At("statement_1")
       /\ LET next_token_value == TokValue(TokenAt(token_index + 1))
              next_token_type == TokType(TokenAt(token_index + 1))
          IN  IF next_token_value = "="
              THEN Enter("statement_semicolon", "assignment_statement_0")
              ELSE IF next_token_type = "OPERATOR" /\ next_token_value = "<<"
              THEN Enter("statement_semicolon", "output_statement_0")
              ELSE Do(1, error(AssignmentOrOutputExpected),
                      Goto("statement_generic"))
       /\ Frame
    \/ /\ At("statement_generic")
       /\ Do(1, error(StatementExpected),
               Goto("statement_consume"))
       /\ Frame
    \/ /\ At("statement_semicolon")
       /\ Do(2, match("PUNCTUATOR", <<";">>), Return)
       /\ Frame
    \/ /\ At("statement_end")
       /\ Skip /\ stack' = Return
       /\ Frame
    \/ /\ At("statement_consume")
       /\ Do(1, consume, Return)
       /\ Frame

statement ==
    \/ /\ At("statement_0")
       /\ IF current_token = None
          THEN Skip /\ stack' = Return
          ELSE LET token_type == TokType(current_token)
                   token_value == TokValue(current_token)
               IN
               IF token_type = "KEYWORD" /\ token_value \in TypeNames
               THEN Enter("statement_semicolon", "declaration_statement_0")
               ELSE IF token_type = "IDENTIFIER"
               THEN IF token_index + 1 < Len(tokens)
                    THEN Peek /\ stack' = Goto("statement_1")
                    ELSE Do(1, error(AssignmentOrOutputAtEnd),
                            Return)
               ELSE IF token_type = "KEYWORD" /\ token_value = "if"
               THEN Enter("statement_end", "if_statement_0")
               ELSE IF token_type = "KEYWORD" /\ token_value = "return"
               THEN Enter("statement_semicolon", "return_statement_0")
               ELSE Do(1, error(StatementExpected),
                       Goto("statement_consume"))
       /\ Frame
    \/ /\ At("statement_1")
       /\ LET next_token_value == TokValue(TokenAt(token_index + 1))
              next_token_type == TokType(TokenAt(token_index + 1))
          IN  IF next_token_value = "="
              THEN Enter("statement_semicolon", "assignment_statement_0")
              ELSE IF next_token_type = "OPERATOR" /\ next_token_value = "<<"
              THEN Enter("statement_semicolon", "output_statement_0")
              ELSE Do(1, error(AssignmentOrOutputExpected),
                      Return)
       /\ Frame
    \/ /\ At("statement_semicolon")
       /\ Do(2, match("PUNCTUATOR", <<";">>), Return)
       /\ Frame
    \/ /\ At("statement_end")
       /\ Skip /\ stack' = Return
       /\ Frame
    \/ /\ At("statement_consume")
       /\ Do(1, consume, Return)
       /\ Frame

declaration_statement ==
    \/ /\ At("declaration_statement_0")
       /\ Enter("declaration_statement_1", "type_0")
       /\ Frame
    \/ /\ At("declaration_statement_1")
       /\ Enter("declaration_statement_2", "identifier_list_0")
       /\ Frame
    \/ /\ At("declaration_statement_2")
       /\ Skip /\ stack' = Return
       /\ Frame

identifier_list ==
    \/ /\ At("identifier_list_0")
       /\ Do(2, match("IDENTIFIER", <<>>), Goto("identifier_list_1"))
       /\ Frame
    \/ /\ At("identifier_list_1")
       /\ IF current_token # None /\ TokValue(current_token) = ","
          THEN Do(2, match("PUNCTUATOR", <<",">>), Goto("identifier_list_2"))
          ELSE Skip /\ stack' = Return
       /\ Frame
    \/ /\ At("identifier_list_2")
       /\ Do(2, match("IDENTIFIER", <<>>), Goto("identifier_list_1"))
       /\ Frame

assignment_statement ==
    \/ /\ At("assignment_statement_0")
       /\ Do(2, match("IDENTIFIER", <<>>), Goto("assignment_statement_1"))
       /\ Frame
    \/ /\ At("assignment_statement_1")
       /\ Do(2, match("OPERATOR", <<"=">>), Goto("assignment_statement_2"))
       /\ Frame
    \/ /\ At("assignment_statement_2")
       /\ Enter("assignment_statement_3", "expression_0")
       /\ Frame
    \/ /\ At("assignment_statement_3")
       /\ Skip /\ stack' = Return
       /\ Frame

if_statement ==
    \/ /\ At("if_statement_0")
       /\ Do(2, match("KEYWORD", <<"if">>), Goto("if_statement_1"))
       /\ Frame
    \/ /\ At("if_statement_1")
       /\ Do(2, match("PUNCTUATOR", <<"(">>), Goto("if_statement_2"))
       /\ Frame
    \/ /\ At("if_statement_2")
       /\ Enter("if_statement_3", "condition_0")
       /\ Frame
    \/ /\ At("if_statement_3")
       /\ Do(2, match("PUNCTUATOR", <<")">>), Goto("if_statement_4"))
       /\ Frame
    \/ /\ At("if_statement_4")
       /\ Enter("if_statement_5", "block_0")
       /\ Frame
    \/ /\ At("if_statement_5")
       /\ IF current_token # None /\ TokValue(current_token) = "else"
          THEN Do(2, match("KEYWORD", <<"else">>), Goto("if_statement_6"))
          ELSE Skip /\ stack' = Return
       /\ Frame
    \/ /\ At("if_statement_6")
       /\ Enter("if_statement_7", "block_0")
       /\ Frame
    \/ /\ At("if_statement_7")
       /\ Skip /\ stack' = Return
       /\ Frame

condition ==
    \/ /\ At("condition_0")
       /\ Enter("condition_1", "expression_0")
       /\ Frame
    \/ /\ At("condition_1")
       /\ Enter("condition_2", "compare_op_0")
       /\ Frame
    \/ /\ At("condition_2")
       /\ Enter("condition_3", "expression_0")
       /\ Frame
    \/ /\ At("condition_3")
       /\ Skip /\ stack' = Return
       /\ Frame

compare_op ==
    /\ At("compare_op_0")
    /\ IF /\ current_token # None
          /\ TokType(current_token) = "OPERATOR"
          /\ TokValue(current_token) \in CompareOps
       THEN Do(1, consume, Return)
       ELSE Do(1, error(CompareOpExpected), Return)
    /\ Frame

output_statement ==
    \/ /\ At("output_statement_0")
       /\ Do(2, match("IDENTIFIER", <<>>), Goto("output_statement_1"))
       /\ Frame
    \/ /\ At("output_statement_1")
       /\ Enter("output_statement_2", "output_list_0")
       /\ Frame
    \/ /\ At("output_statement_2")
       /\ Skip /\ stack' = Return
       /\ Frame

output_list ==
    \/ /\ At("output_list_0")
       /\ Do(2, match("OPERATOR", <<"<<">>), Goto("output_list_1"))
       /\ Frame
    \/ /\ At("output_list_1")
       /\ Enter("output_list_2", "output_item_0")
       /\ Frame
    \/ /\ At("output_list_2")
       /\ IF current_token # None /\ TokValue(current_token) = "<<"
          THEN Do(2, match("OPERATOR", <<"<<">>), Goto("output_list_3"))
          ELSE Skip /\ stack' = Return
       /\ Frame
    \/ /\ At("output_list_3")
       /\ Enter("output_list_2", "output_item_0")
       /\ Frame

output_item ==
    /\ At("output_item_0")
    /\ IF current_token = None
       THEN Do(1, error(OutputItemAtEnd), Return)
       ELSE IF TokType(current_token) = "STRING_LITERAL"
       THEN Do(1, consume, Return)
       ELSE IF TokType(current_token) = "IDENTIFIER"
       THEN Do(1, consume, Return)
       ELSE Do(1, error(OutputItemExpected), Return)
    /\ Frame

return_statement ==
    \/ /\ At("return_statement_0")
       /\ Do(2, match("KEYWORD", <<"return">>), Goto("return_statement_1"))
       /\ Frame
    \/ /\ At("return_statement_1")
       /\ Enter("return_statement_2", "expression_0")
       /\ Frame
    \/ /\ At("return_statement_2")
       /\ Skip /\ stack' = Return
       /\ Frame

expression ==
    \/ /\ At("expression_0")
       /\ Enter("expression_1", "term_0")
       /\ Frame
    \/ /\ At("expression_1")
       /\ IF current_token # None /\ TokValue(current_token) \in {"+", "-"}
          THEN Do(1, consume, Goto("expression_2"))
          ELSE Skip /\ stack' = Return
       /\ Frame
    \/ /\ At("expression_2")
       /\ Enter("expression_1", "term_0")
       /\ Frame

term ==
    \/ /\ At("term_0")
       /\ Enter("term_1", "factor_0")
       /\ Frame
    \/ /\ At("term_1")
       /\ IF current_token # None /\ TokValue(current_token) \in {"*", "/"}
          THEN Do(1, consume, Goto("term_2"))
          ELSE Skip /\ stack' = Return
       /\ Frame
    \/ /\ At("term_2")
       /\ Enter("term_1", "factor_0")
       /\ Frame

factor ==
    \/ /\ At("factor_0")
       /\ IF current_token = None
          THEN Do(1, error(FactorExpected),
                  Return)
          ELSE IF TokType(current_token) \in
                      {"IDENTIFIER", "CONSTANT_INT", "CONSTANT_FLOAT"}
          THEN Do(1, consume, Return)
          ELSE IF TokValue(current_token) = "("
          THEN Do(2, match("PUNCTUATOR", <<"(">>), Goto("factor_1"))
          ELSE Do(1, error(FactorExpected),
                  Return)
       /\ Frame
    \/ /\ At("factor_1")
       /\ Enter("factor_2", "expression_0")
       /\ Frame
    \/ /\ At("factor_2")
       /\ Do(2, match("PUNCTUATOR", <<")">>), Return)
       /\ Frame

ParserNext ==
    \/ parse
    \/ program
    \/ function_definition
    \/ type
    \/ block
    \/ statement_list
    \/ statement
    \/ declaration_statement
    \/ identifier_list
    \/ assignment_statement
    \/ if_statement
    \/ condition
    \/ compare_op
    \/ output_statement
    \/ output_list
    \/ output_item
    \/ return_statement
    \/ expression
    \/ term
    \/ factor

(***************************************************************************)
(* Token lists the Parser is run on.                                       *)
(***************************************************************************)
tInt == KW("int")

tIf == KW("if")

tElse == KW("else")

tReturn == KW("return")

tX == ID("x")

tMain == ID("main")

tCout == ID("cout")

tEndl == ID("endl")

tZero == INT("0")

tFloat == FLT("2.5")

tString == STR("\"s\"")

tLParen == PU("(")

tRParen == PU(")")

tLBrace == PU("{")

tRBrace == PU("}")

tSemi == PU(";")

tComma == PU(",")

tAssign == OP("=")

tShl == OP("<<")

tPlus == OP("+")

tMinus == OP("-")

tStar == OP("*")

tSlash == OP("/")

tLess == OP("<")

tEq == OP("==")

\* Pairings of category and lexeme the Lexer never produces.
tStrComma == STR(",")

tPuShl == PU("<<")

tIdPlus == ID("+")

tStrRBrace == STR("}")

tIdElse == ID("else")

tIdAssign == ID("=")

\* Type Identifier '(' ')' '{' : the tokens in front of the function body.
Header == <<tInt, tMain, tLParen, tRParen, tLBrace>>

\* Every sequence over S of length at most n.
SeqsUpTo(S, n) == UNION {[1..k -> S] : k \in 0..n}

(***************************************************************************)
(* The grammar the procedures walk, as a recognizer that follows every     *)
(* derivation: XEnds(s, i) is the set of positions j such that s[i..j-1]   *)
(* is derivable from X.  A literal of the grammar is the token the Lexer   *)
(* produces for it.                                                        *)
(***************************************************************************)
Is(s, i, tok) == i <= Len(s) /\ s[i] = tok

HasType(s, i, types) == i <= Len(s) /\ TokType(s[i]) \in types

IsOneOf(s, i, toks) == i <= Len(s) /\ s[i] \in toks

TypeEnds(s, i) ==
    IF IsOneOf(s, i, {KW(v) : v \in TypeNames}) THEN {i + 1} ELSE {}

IdentifierEnds(s, i) ==
    IF HasType(s, i, {"IDENTIFIER"}) THEN {i + 1} ELSE {}

LiteralEnds(s, i, tok) ==
    IF Is(s, i, tok) THEN {i + 1} ELSE {}

RECURSIVE FactorEnds(_, _), TermRest(_, _, _), ExpressionRest(_, _, _),
          ExpressionEnds(_, _)
FactorEnds(s, i) ==
    LET atom == IF HasType(s, i, {"IDENTIFIER", "CONSTANT_INT", "CONSTANT_FLOAT"})
                THEN {i + 1} ELSE {}
        nested == IF Is(s, i, tLParen)
                  THEN UNION {LiteralEnds(s, j, tRParen) :
                                 j \in ExpressionEnds(s, i + 1)}
                  ELSE {}
    IN  atom \cup nested

\* { ("*" | "/") Factor }: the positions reached from those of J.
TermRest(s, J, seen) ==
    IF J = {} THEN seen
    ELSE LET after(j) == IF IsOneOf(s, j, {tStar, tSlash})
                         THEN FactorEnds(s, j + 1) ELSE {}
             new == UNION {after(j) : j \in J} \ (seen \cup J)
         IN  TermRest(s, new, seen \cup J)

TermEnds(s, i) == TermRest(s, FactorEnds(s, i), {})

\* { ("+" | "-") Term }
ExpressionRest(s, J, seen) ==
    IF J = {} THEN seen
    ELSE LET after(j) == IF IsOneOf(s, j, {tPlus, tMinus})
                         THEN TermEnds(s, j + 1) ELSE {}
             new == UNION {after(j) : j \in J} \ (seen \cup J)
         IN  ExpressionRest(s, new, seen \cup J)

ExpressionEnds(s, i) == ExpressionRest(s, TermEnds(s, i), {})

CompareOpEnds(s, i) ==
    IF IsOneOf(s, i, {OP(v) : v \in CompareOps}) THEN {i + 1} ELSE {}

ConditionEnds(s, i) ==
    UNION {ExpressionEnds(s, k) :
              k \in UNION {CompareOpEnds(s, j) : j \in ExpressionEnds(s, i)}}

\* { ',' Identifier }
RECURSIVE IdentifierListRest(_, _, _)
IdentifierListRest(s, J, seen) ==
    IF J = {} THEN seen
    ELSE LET after(j) == IF Is(s, j, tComma) THEN IdentifierEnds(s, j + 1) ELSE {}
             new == UNION {after(j) : j \in J} \ (seen \cup J)
         IN  IdentifierListRest(s, new, seen \cup J)

IdentifierListEnds(s, i) == IdentifierListRest(s, IdentifierEnds(s, i), {})

DeclarationStmtEnds(s, i) ==
    UNION {IdentifierListEnds(s, j) : j \in TypeEnds(s, i)}

AssignmentStmtEnds(s, i) ==
    UNION {ExpressionEnds(s, k) :
              k \in UNION {LiteralEnds(s, j, tAssign) : j \in IdentifierEnds(s, i)}}

OutputItemEnds(s, i) ==
    IF HasType(s, i, {"STRING_LITERAL", "IDENTIFIER"}) THEN {i + 1} ELSE {}

OutputShiftEnds(s, i) ==
    IF Is(s, i, tShl) THEN OutputItemEnds(s, i + 1) ELSE {}

\* { '<<' OutputItem }
RECURSIVE OutputListRest(_, _, _)
OutputListRest(s, J, seen) ==
    IF J = {} THEN seen
    ELSE LET new == UNION {OutputShiftEnds(s, j) : j \in J} \ (seen \cup J)
         IN  OutputListRest(s, new, seen \cup J)

OutputListEnds(s, i) == OutputListRest(s, OutputShiftEnds(s, i), {})

OutputStmtEnds(s, i) ==
    UNION {OutputListEnds(s, j) : j \in IdentifierEnds(s, i)}

ReturnStmtEnds(s, i) ==
    UNION {ExpressionEnds(s, j) : j \in LiteralEnds(s, i, tReturn)}

Semicolon(s, J) == UNION {LiteralEnds(s, j, tSemi) : j \in J}

RECURSIVE StatementEnds(_, _), StatementListRest(_, _, _), BlockEnds(_, _),
          IfStmtEnds(_, _)
StatementEnds(s, i) ==
    UNION {Semicolon(s, DeclarationStmtEnds(s, i)),
           Semicolon(s, AssignmentStmtEnds(s, i)),
           Semicolon(s, OutputStmtEnds(s, i)),
           IfStmtEnds(s, i),
           Semicolon(s, ReturnStmtEnds(s, i))}

\* { Statement }
StatementListRest(s, J, seen) ==
    IF J = {} THEN seen
    ELSE LET new == UNION {StatementEnds(s, j) : j \in J} \ (seen \cup J)
         IN  StatementListRest(s, new, seen \cup J)

StatementListEnds(s, i) == StatementListRest(s, {i}, {})

BlockEnds(s, i) ==
    IF Is(s, i, tLBrace)
    THEN UNION {LiteralEnds(s, j, tRBrace) : j \in StatementListEnds(s, i + 1)}
    ELSE {}

IfStmtEnds(s, i) ==
    IF Is(s, i, tIf) /\ Is(s, i + 1, tLParen)
    THEN LET then == UNION {BlockEnds(s, k) :
                        k \in UNION {LiteralEnds(s, j, tRParen) :
                                        j \in ConditionEnds(s, i + 2)}}
         IN  then \cup UNION {BlockEnds(s, k) :
                          k \in UNION {LiteralEnds(s, j, tElse) : j \in then}}
    ELSE {}

FunctionDefinitionEnds(s, i) ==
    UNION {BlockEnds(s, m) :
       m \in UNION {LiteralEnds(s, l, tRParen) :
          l \in UNION {LiteralEnds(s, k, tLParen) :
             k \in UNION {IdentifierEnds(s, j) : j \in TypeEnds(s, i)}}}}

ProgramEnds(s, i) == FunctionDefinitionEnds(s, i)

\* s is a sentence of the grammar rule Program.  (A sentence ends with the
\* '}' of the function's block; the test in front spares the walk over s.)
Derivable(s) ==
    /\ s # <<>>
    /\ s[Len(s)] = tRBrace
    /\ Len(s) + 1 \in ProgramEnds(s, 1)

\* Every token of s pairs its lexeme with the category the Lexer gives it.
Unscannable == {tStrComma, tPuShl, tIdPlus, tStrRBrace, tIdElse, tIdAssign}

ScannerProducible(s) == \A i \in 1..Len(s) : s[i] \notin Unscannable

(***************************************************************************)
(* The sentences of the grammar by length: XOf(n) is the set of token      *)
(* lists of exactly n tokens derivable from X, over a few terminals of     *)
(* each class.                                                             *)
(***************************************************************************)
SomeAtoms == {tX, tZero}

SomeAddOps == {tPlus, tMinus}

SomeMulOps == {tStar, tSlash}

SomeCompareOps == {tLess, tEq}

SomeItems == {tString, tEndl}

RECURSIVE FactorOf(_), TermOf(_), ExpressionOf(_)
FactorOf(n) ==
    IF n = 1 THEN {<<a>> : a \in SomeAtoms}
    ELSE IF n >= 3
    THEN {<<tLParen>> \o e \o <<tRParen>> : e \in ExpressionOf(n - 2)}
    ELSE {}

TermOf(n) ==
    FactorOf(n) \cup
    UNION {{t \o <<o>> \o f : t \in TermOf(k), o \in SomeMulOps,
                              f \in FactorOf(n - 1 - k)} : k \in 1..(n - 2)}

ExpressionOf(n) ==
    TermOf(n) \cup
    UNION {{e \o <<o>> \o t : e \in ExpressionOf(k), o \in SomeAddOps,
                              t \in TermOf(n - 1 - k)} : k \in 1..(n - 2)}

ConditionOf(n) ==
    UNION {{a \o <<c>> \o b : a \in ExpressionOf(k), c \in SomeCompareOps,
                              b \in ExpressionOf(n - 1 - k)} : k \in 1..(n - 2)}

RECURSIVE IdentifierListOf(_)
IdentifierListOf(n) ==
    IF n = 1 THEN {<<tX>>}
    ELSE IF n >= 3 THEN {l \o <<tComma, tX>> : l \in IdentifierListOf(n - 2)}
    ELSE {}

DeclarationStmtOf(n) == {<<tInt>> \o l : l \in IdentifierListOf(n - 1)}

AssignmentStmtOf(n) == {<<tX, tAssign>> \o e : e \in ExpressionOf(n - 2)}

RECURSIVE OutputListOf(_)
OutputListOf(n) ==
    IF n = 2 THEN {<<tShl, i>> : i \in SomeItems}
    ELSE IF n >= 4
    THEN {l \o <<tShl, i>> : l \in OutputListOf(n - 2), i \in SomeItems}
    ELSE {}

OutputStmtOf(n) == {<<tCout>> \o l : l \in OutputListOf(n - 1)}

ReturnStmtOf(n) == {<<tReturn>> \o e : e \in ExpressionOf(n - 1)}

RECURSIVE StatementOf(_), StatementListOf(_), BlockOf(_), IfStmtOf(_)
StatementOf(n) ==
    UNION {{d \o <<tSemi>> : d \in DeclarationStmtOf(n - 1)},
           {a \o <<tSemi>> : a \in AssignmentStmtOf(n - 1)},
           {o \o <<tSemi>> : o \in OutputStmtOf(n - 1)},
           IfStmtOf(n),
           {r \o <<tSemi>> : r \in ReturnStmtOf(n - 1)}}

StatementListOf(n) ==
    IF n = 0 THEN {<<>>}
    ELSE UNION {{t \o l : t \in StatementOf(k), l \in StatementListOf(n - k)} :
                   k \in 1..n}

BlockOf(n) ==
    IF n >= 2
    THEN {<<tLBrace>> \o l \o <<tRBrace>> : l \in StatementListOf(n - 2)}
    ELSE {}

IfStmtOf(n) ==
    LET then(m) == UNION {{<<tIf, tLParen>> \o c \o <<tRParen>> \o b :
                              c \in ConditionOf(k), b \in BlockOf(m - 3 - k)} :
                             k \in 3..(m - 5)}
    IN  then(n) \cup
        UNION {{t \o <<tElse>> \o b : t \in then(k), b \in BlockOf(n - 1 - k)} :
                  k \in 8..(n - 3)}

ProgramOf(n) == {<<tInt, tMain, tLParen, tRParen>> \o b : b \in BlockOf(n - 4)}

(***************************************************************************)
(* The inputs of the Parser.                                               *)
(***************************************************************************)
MaxProgram == 14

MaxLen == 3

MaxBody == 3

NestDepth == 340

\* Every sentence of Program of at most MaxProgram tokens.
Programs == UNION {ProgramOf(n) : n \in 0..MaxProgram}

tA == ID("a")

tB == ID("b")

ExampleReturn == Header \o <<tReturn, tZero, tSemi, tRBrace>>

ExampleIfElse ==
    Header \o <<tIf, tLParen, tA, tLess, tB, tRParen,
                tLBrace, tReturn, tA, tSemi, tRBrace,
                tElse, tLBrace, tReturn, tB, tSemi, tRBrace, tRBrace>>

ExampleOutput ==
    Header \o <<tCout, tShl, tX, tShl, tEndl, tSemi, tReturn, tZero, tSemi, tRBrace>>

ExampleMissingSemicolon == Header \o <<tX, tAssign, INT("5"), tRBrace>>

ExampleDeclaration ==
    Header \o <<tInt, tX, tComma, tX, tSemi,
                tX, tAssign, tLParen, tX, tPlus, tZero, tRParen, tStar, tFloat, tSemi,
                tRBrace>>

Examples == {ExampleReturn, ExampleIfElse, ExampleOutput, ExampleMissingSemicolon,
             ExampleDeclaration}

\* The token lists one token away from s: one token dropped, replaced or added.
EditTokens ==
    {tInt, tIf, tElse, tReturn, tX, tZero, tString, tLParen, tRParen, tLBrace,
     tRBrace, tSemi, tComma, tAssign, tShl, tPlus, tStar, tLess,
     tStrComma, tPuShl, tIdPlus, tStrRBrace, tIdElse, tIdAssign}

Edits(s) ==
    UNION {{SubSeq(s, 1, i - 1) \o SubSeq(s, i + 1, Len(s)) : i \in 1..Len(s)},
           {[s EXCEPT ![i] = t] : i \in 1..Len(s), t \in EditTokens},
           {SubSeq(s, 1, i) \o <<t>> \o SubSeq(s, i + 1, Len(s)) :
               i \in 0..Len(s), t \in EditTokens}}

\* Any pairing of tokens, from the start of the input and from the start of
\* the function body.
ShortTokens == {tInt, tMain, tLParen, tRParen, tLBrace, tRBrace, tReturn}

BodyTokens ==
    {tInt, tX, tComma, tSemi, tAssign, tShl, tZero, tString, tRBrace, tReturn,
     tStrComma, tPuShl}

\* Statements with more nested parentheses than CPython allows frames:
\* "return ( ( ( ...", "if ( ( ( ( ..." and "return ( ( ... 0 ... ) ) ;".
Opening(n) == [i \in 1..n |-> tLParen]

Closing(n) == [i \in 1..n |-> tRParen]

DeepNest == Header \o <<tReturn>> \o Opening(NestDepth)

DeepIf == Header \o <<tIf, tLParen>> \o Opening(NestDepth)

DeepProgram ==
    Header \o <<tReturn>> \o Opening(NestDepth) \o <<tZero>> \o Closing(NestDepth)
           \o <<tSemi, tRBrace>>

\* Sentences of Program by construction, and each of those that end with a
\* statement's ';' with that ';' left out.
Sentences ==
    Programs \cup
    {ExampleReturn, ExampleIfElse, ExampleOutput, ExampleDeclaration, DeepProgram}

MissingSemicolon ==
    {SubSeq(p, 1, Len(p) - 2) \o <<tRBrace>> :
        p \in {q \in Sentences : q[Len(q) - 1] = tSemi}}

Inputs ==
    UNION {Sentences,
           MissingSemicolon,
           Examples,
           UNION {Edits(s) : s \in {ExampleIfElse, ExampleOutput, ExampleDeclaration}},
           SeqsUpTo(ShortTokens, MaxLen),
           {Header \o b : b \in SeqsUpTo(BodyTokens, MaxBody)},
           {DeepNest, DeepIf}}

(***************************************************************************)
(* The Parser on one token list: Parser(tokens).parse().                   *)
(***************************************************************************)
LexerIdle ==
    /\ code = <<>>
    /\ lex_tokens = <<>>
    /\ lex_pc = "idle"
    /\ source = <<>>
    /\ trail = <<>>

Init ==
    /\ tokens \in Inputs
    /\ token_index = 0
    /\ current_token = IF tokens # <<>> THEN TokenAt(0) ELSE None
    /\ errors = <<>>
    /\ stack = <<"parse_0">>
    /\ result = "running"
    /\ faulted = FALSE
    /\ reads = IF tokens # <<>> THEN {0} ELSE {}
    /\ base = BaseDepth
    /\ earlier = <<>>
    /\ LexerIdle

Next == ParserNext

Spec == Init /\ [][Next]_vars

(***************************************************************************)
(* Two runs on one token list: when parse() has returned, a second Parser  *)
(* is constructed on the same list and its parse() is called, from the     *)
(* module level again or from inside a function of the caller.             *)
(***************************************************************************)
\* How many frames deeper than the module level the caller of the second
\* run may stand.
CallerFrames == 1

\* How many "(" a condition's first operand may open before the consume()
\* of the innermost operand, called from the module level, runs in the last
\* frame CPython allows.
EdgeDepth == (RecursionLimit - BaseDepth - 12) \div 3

\* "int main ( ) { if ( ( ... ( 0 ) ... ) < 0 ) { }": a sentence but for the
\* last "}", its first operand nested EdgeDepth deep.
DeepEdge ==
    Header \o <<tIf, tLParen>> \o Opening(EdgeDepth) \o <<tZero>>
           \o Closing(EdgeDepth) \o <<tLess, tZero, tRParen, tLBrace, tRBrace>>

TwiceInputs ==
    UNION {Examples,
           UNION {Edits(s) : s \in {ExampleIfElse, ExampleOutput, ExampleDeclaration}},
           {DeepNest, DeepEdge}}

TwiceInit ==
    /\ tokens \in TwiceInputs
    /\ token_index = 0
    /\ current_token = IF tokens # <<>> THEN TokenAt(0) ELSE None
    /\ errors = <<>>
    /\ stack = <<"parse_0">>
    /\ result = "running"
    /\ faulted = FALSE
    /\ reads = IF tokens # <<>> THEN {0} ELSE {}
    /\ base = BaseDepth
    /\ earlier = <<>>
    /\ LexerIdle

\* Parser(tokens).parse() once more: a fresh Parser on the same list.
Again ==
    /\ result \in {"success", "failure"}
    /\ earlier = <<>>
    /\ earlier' = <<[result |-> result, errors |-> errors, base |-> base]>>
    /\ token_index' = 0
    /\ current_token' = IF tokens # <<>> THEN TokenAt(0) ELSE None
    /\ errors' = <<>>
    /\ reads' = IF tokens # <<>> THEN {0} ELSE {}
    /\ stack' = <<"parse_0">>
    /\ result' = "running"
    /\ faulted' = FALSE
    /\ base' \in BaseDepth..(BaseDepth + CallerFrames)
    /\ UNCHANGED <<tokens, code, lex_tokens, lex_pc, source, trail>>

TwiceNext == ParserNext \/ Again

TwiceSpec == TwiceInit /\ [][TwiceNext]_vars

(***************************************************************************)
(* Properties of the parser.                                               *)
(***************************************************************************)

\* The match() call the walk is about to make, as <<type, lexeme>>, or <<>>
\* when the next statement is no match() call.
Expecting ==
    IF result # "running" \/ stack = <<>> THEN <<>>
    ELSE LET lexeme == IF current_token = None THEN "" ELSE TokValue(current_token)
         IN
         CASE Top \in {"function_definition_1", "identifier_list_0",
                       "identifier_list_2", "assignment_statement_0",
                       "output_statement_0"} -> <<"IDENTIFIER", <<>>>>
           [] Top \in {"function_definition_2", "if_statement_1"} ->
                  <<"PUNCTUATOR", <<"(">>>>
           [] Top \in {"function_definition_3", "if_statement_3", "factor_2"} ->
                  <<"PUNCTUATOR", <<")">>>>
           [] Top = "block_0" -> <<"PUNCTUATOR", <<"{">>>>
           [] Top = "block_2" -> <<"PUNCTUATOR", <<"}">>>>
           [] Top = "statement_semicolon" -> <<"PUNCTUATOR", <<";">>>>
           [] Top = "assignment_statement_1" -> <<"OPERATOR", <<"=">>>>
           [] Top = "if_statement_0" -> <<"KEYWORD", <<"if">>>>
           [] Top = "return_statement_0" -> <<"KEYWORD", <<"return">>>>
           [] Top = "output_list_0" -> <<"OPERATOR", <<"<<">>>>
           [] Top = "identifier_list_1" /\ lexeme = "," -> <<"PUNCTUATOR", <<",">>>>
           [] Top = "if_statement_5" /\ lexeme = "else" -> <<"KEYWORD", <<"else">>>>
           [] Top = "output_list_2" /\ lexeme = "<<" -> <<"OPERATOR", <<"<<">>>>
           [] /\ Top = "factor_0"
              /\ current_token # None
              /\ TokType(current_token) \notin
                     {"IDENTIFIER", "CONSTANT_INT", "CONSTANT_FLOAT"}
              /\ lexeme = "(" -> <<"PUNCTUATOR", <<"(">>>>
           [] OTHER -> <<>>

\* The last entry of the log.
LastError == errors[Len(errors)]

\* C1: when parse() has returned, its verdict is success exactly when the
\* log is empty, a success leaves the cursor at the number of tokens, and a
\* token left over after FunctionDefinition returned is reported by one more
\* entry and makes the verdict failure.
C1_VerdictIffEmptyLog ==
    result # "running" =>
        /\ (result = "success") <=> (errors = <<>>)
        /\ result = "success" => token_index = Len(tokens)
        /\ token_index < Len(tokens) =>
               /\ result = "failure"
               /\ errors # <<>>
               /\ LastError = [index |-> token_index,
                               message |-> UnexpectedToken(current_token)]

\* C2: a token sequence the Scanner can produce and that Program derives is
\* parsed without a log entry, and the verdict is success.
C2_SentencesAccepted ==
    /\ Len(errors) = 1 => ~(ScannerProducible(tokens) /\ Derivable(tokens))
    /\ result # "running" =>
           \/ result = "success" /\ errors = <<>>
           \/ ~(ScannerProducible(tokens) /\ Derivable(tokens))

C2_Witness ==
    /\ tokens = ExampleIfElse
    /\ result = "success"
    /\ token_index = Len(tokens)

\* A loop of identifier_list() or of output_list() is back at its head after
\* an iteration that logged its two failures and moved nothing: the token
\* that keeps the loop going is still the current one.
IdentifierListSpins ==
    /\ result = "running"
    /\ stack # <<>>
    /\ Top = "identifier_list_1"
    /\ current_token # None
    /\ TokValue(current_token) = ","
    /\ Len(errors) >= 2
    /\ errors[Len(errors) - 1] =
           [index |-> token_index,
            message |-> MatchMessage("PUNCTUATOR", <<",">>, current_token)]
    /\ LastError = [index |-> token_index,
                    message |-> MatchMessage("IDENTIFIER", <<>>, current_token)]

OutputListSpins ==
    /\ result = "running"
    /\ stack # <<>>
    /\ Top = "output_list_2"
    /\ current_token # None
    /\ TokValue(current_token) = "<<"
    /\ Len(errors) >= 2
    /\ errors[Len(errors) - 1] =
           [index |-> token_index,
            message |-> MatchMessage("OPERATOR", <<"<<">>, current_token)]
    /\ LastError = [index |-> token_index, message |-> OutputItemExpected]

\* C3: parse() terminates on every sequence of (category, lexeme) pairs: no
\* loop of the walk comes back to its head with the cursor, the current token
\* and the frames of one iteration before, from where it would repeat forever.
C3_ParseTerminates == ~IdentifierListSpins /\ ~OutputListSpins

\* C4: when the last statement of the function body lacks only its ';' and
\* the closing '}' follows, the verdict is failure and the log has exactly
\* one entry, which expects PUNCTUATOR ';' at the index of that '}'.
C4_MissingSemicolonReported ==
    (result # "running" /\ tokens \in MissingSemicolon) =>
        /\ result = "failure"
        /\ errors = <<[index |-> Len(tokens) - 1,
                       message |-> MatchMessage("PUNCTUATOR", <<";">>, tRBrace)]>>

\* C5: every step leaves the cursor as it is or moves it forward by one.
C5_CursorStepsByOne ==
    [][token_index' = token_index \/ token_index' = token_index + 1]_vars

C5_Witness ==
    /\ token_index = 7
    /\ Len(errors) = 2
    /\ result = "failure"

\* C6: the cursor is never below 0 nor above the number of tokens, and the
\* current token is the one at the cursor, or None at the end of the input.
C6_CursorInRange ==
    /\ token_index \in 0..Len(tokens)
    /\ current_token = IF token_index < Len(tokens)
                       THEN TokenAt(token_index)
                       ELSE None

C6_Witness ==
    /\ tokens # <<>>
    /\ token_index = Len(tokens)
    /\ errors # <<>>
    /\ LastError.message.text = "Expected"
    /\ LastError.message.found = None

\* C7: a match() call has exactly two outcomes: the current token has the
\* expected category (and lexeme, when one is given) and the cursor moves by
\* one with the log unchanged, or else one entry is logged at the cursor and
\* the cursor stays.
C7_MatchHasTwoOutcomes ==
    [][Expecting # <<>> =>
          LET expected_type == Expecting[1]
              expected_value == Expecting[2]
              matches == /\ current_token # None
                         /\ TokType(current_token) = expected_type
                         /\ \/ expected_value = <<>>
                            \/ TokValue(current_token) = expected_value[1]
          IN  IF matches
              THEN /\ token_index' = token_index + 1
                   /\ errors' = errors
              ELSE /\ token_index' = token_index
                   /\ errors' = Append(errors,
                          [index |-> token_index,
                           message |-> MatchMessage(expected_type, expected_value,
                                                    current_token)])]_vars

\* C8: the log only grows: every step keeps the entries it had, in order.
C8_LogAppendOnly ==
    [][/\ Len(errors') >= Len(errors)
       /\ SubSeq(errors', 1, Len(errors)) = errors]_vars

C8_Witness ==
    /\ Len(errors) >= 3
    /\ errors[1].index < errors[3].index
    /\ result = "failure"

(***************************************************************************)
(* The Lexer.  A text is a sequence of one-character strings.  Each        *)
(* pattern of TOKEN_TYPES is modelled by the length of what re.match finds *)
(* at the start of a text; 0 stands for no match (no pattern of the table  *)
(* matches the empty string).                                              *)
(***************************************************************************)
Letters ==
    {"a", "b", "c", "d", "e", "f", "g", "h", "i", "j", "k", "l", "m",
     "n", "o", "p", "q", "r", "s", "t", "u", "v", "w", "x", "y", "z",
     "A", "B", "C", "D", "E", "F", "G", "H", "I", "J", "K", "L", "M",
     "N", "O", "P", "Q", "R", "S", "T", "U", "V", "W", "X", "Y", "Z"}

Digits == {"0", "1", "2", "3", "4", "5", "6", "7", "8", "9"}

\* [a-zA-Z_] and [a-zA-Z0-9_]
IsIdentifierStart(c) == c \in Letters \cup {"_"}

IdentifierChars == Letters \cup Digits \cup {"_"}

\* \w: what \b tells apart from the rest.
IsWordChar(c) == c \in Letters \cup Digits \cup {"_"}

\* \s, and what str.lstrip() removes.
Whitespace == {" ", "\t", "\n", "\r", "\f"}

StartsWith(text, prefix) ==
    Len(text) >= Len(prefix) /\ SubSeq(text, 1, Len(prefix)) = prefix

\* \b after the first k characters of text.
Boundary(text, k) ==
    LET before == k >= 1 /\ IsWordChar(text[k])
        after == k < Len(text) /\ IsWordChar(text[k + 1])
    IN  before # after

\* The number of characters from position i on that are in chars.
Run(text, i, chars) ==
    CHOOSE k \in 0..(Len(text) + 1 - i) :
        /\ \A j \in i..(i + k - 1) : text[j] \in chars
        /\ i + k > Len(text) \/ text[i + k] \notin chars

\* The greatest member of a set of lengths, 0 when there is none.
Longest(ks) == IF ks = {} THEN 0 ELSE CHOOSE k \in ks : \A m \in ks : m <= k

KeywordList ==
    << <<"i", "n", "t">>, <<"f", "l", "o", "a", "t">>,
       <<"d", "o", "u", "b", "l", "e">>, <<"c", "h", "a", "r">>,
       <<"r", "e", "t", "u", "r", "n">>, <<"i", "f">>, <<"e", "l", "s", "e">>,
       <<"f", "o", "r">>, <<"w", "h", "i", "l", "e">>,
       <<"n", "a", "m", "e", "s", "p", "a", "c", "e">>,
       <<"t", "e", "m", "p", "l", "a", "t", "e">>,
       <<"i", "n", "c", "l", "u", "d", "e">>, <<"d", "e", "f", "i", "n", "e">> >>

\* (?:a|b|...)\b at position i + 1: the first alternative, in order, that
\* matches and ends at a word boundary.
AlternativeLen(text, i, words) ==
    LET rest == SubSeq(text, i + 1, Len(text))
        hits == {n \in 1..Len(words) :
                    StartsWith(rest, words[n]) /\ Boundary(text, i + Len(words[n]))}
    IN  IF hits = {} THEN 0
        ELSE Len(words[CHOOSE n \in hits : \A m \in hits : n <= m])

\* \b(?:int|float|...)\b
KeywordLen(text) ==
    IF Boundary(text, 0) THEN AlternativeLen(text, 0, KeywordList) ELSE 0

\* \b[a-zA-Z_][a-zA-Z0-9_]*\b
IdentifierLen(text) ==
    IF text # <<>> /\ IsIdentifierStart(text[1]) /\ Boundary(text, 0)
    THEN Longest({k \in 1..Run(text, 1, IdentifierChars) : Boundary(text, k)})
    ELSE 0

\* #\s*(?:include|define)\b
PreprocessorLen(text) ==
    IF text # <<>> /\ text[1] = "#"
    THEN LET spaces == Run(text, 2, Whitespace)
             word == AlternativeLen(text, 1 + spaces,
                                    <<KeywordList[12], KeywordList[13]>>)
         IN  IF word = 0 THEN 0 ELSE 1 + spaces + word
    ELSE 0

\* \b\d+\.\d+\b
FloatLen(text) ==
    LET whole == Run(text, 1, Digits)
    IN  IF /\ whole >= 1
           /\ Boundary(text, 0)
           /\ whole + 1 <= Len(text)
           /\ text[whole + 1] = "."
        THEN Longest({whole + 1 + k : k \in
                        {k \in 1..Run(text, whole + 2, Digits) :
                            Boundary(text, whole + 1 + k)}})
        ELSE 0

\* \b\d+\b
IntLen(text) ==
    IF Boundary(text, 0)
    THEN Longest({k \in 1..Run(text, 1, Digits) : Boundary(text, k)})
    ELSE 0

TwoCharOperators ==
    << <<"=", "=">>, <<"!", "=">>, <<"<", "=">>, <<">", "=">>, <<"+", "+">>,
       <<"-", "-">>, <<"+", "=">>, <<"-", "=">>, <<"*", "=">>, <<"/", "=">>,
       <<"&", "&">>, <<"|", "|">>, <<"<", "<">>, <<">", ">">> >>

OneCharOperators == {"+", "-", "*", "/", "=", "<", ">", "!", "&", "|", "%", "^", "~"}

\* The operator pattern as it would be with the one-character class in front
\* of the two-character forms.
OperatorLen_one_first(text) ==
    IF text # <<>> /\ text[1] \in OneCharOperators THEN 1
    ELSE IF \E n \in 1..Len(TwoCharOperators) : StartsWith(text, TwoCharOperators[n])
    THEN 2 ELSE 0

\* (==|!=|...|<<|>>|[+\-*/=<>!&|%^~])
OperatorLen(text) ==
    IF \E n \in 1..Len(TwoCharOperators) : StartsWith(text, TwoCharOperators[n])
    THEN 2
    ELSE IF text # <<>> /\ text[1] \in OneCharOperators THEN 1 ELSE 0

\* [{}();,<>]
PunctuatorLen(text) ==
    IF text # <<>> /\ text[1] \in {"{", "}", "(", ")", ";", ",", "<", ">"}
    THEN 1 ELSE 0

\* (?:\\.|[^"\\])*" from position i: where the closing quote is, 0 if nowhere.
RECURSIVE StringClose(_, _)
StringClose(text, i) ==
    IF i > Len(text) THEN 0
    ELSE IF text[i] = "\"" THEN i
    ELSE IF text[i] = "\\"
    THEN IF i + 1 <= Len(text) /\ text[i + 1] # "\n"
         THEN StringClose(text, i + 2)
         ELSE 0
    ELSE StringClose(text, i + 1)

\* "(?:\\.|[^"\\])*"
StringLiteralLen(text) ==
    IF text # <<>> /\ text[1] = "\"" THEN StringClose(text, 2) ELSE 0

\* TOKEN_TYPES in the order of the dictionary, the two comment entries left
\* out as the scan loop leaves them out.
TokenTypes ==
    <<"KEYWORD", "IDENTIFIER", "PREPROCESSOR", "CONSTANT_FLOAT", "CONSTANT_INT",
      "OPERATOR", "PUNCTUATOR", "STRING_LITERAL">>

\* re.match(TOKEN_TYPES[token_type], text): match.end(), 0 for no match.
MatchEnd(token_type, text) ==
    CASE token_type = "KEYWORD" -> KeywordLen(text)
      [] token_type = "IDENTIFIER" -> IdentifierLen(text)
      [] token_type = "PREPROCESSOR" -> PreprocessorLen(text)
      [] token_type = "CONSTANT_FLOAT" -> FloatLen(text)
      [] token_type = "CONSTANT_INT" -> IntLen(text)
      [] token_type = "OPERATOR" -> OperatorLen(text)
      [] token_type = "PUNCTUATOR" -> PunctuatorLen(text)
      [] token_type = "STRING_LITERAL" -> StringLiteralLen(text)

\* match.group(0) as it would be if it lost the last character matched.
MatchGroup_short(token_type, text) ==
    SubSeq(text, 1, MatchEnd(token_type, text) - 1)

\* match.group(0)
MatchGroup(token_type, text) == SubSeq(text, 1, MatchEnd(token_type, text))

\* code[1:] as it would be if it dropped nothing.
Discard_nothing(text) == text

\* code[1:]: the text without the character no pattern matches.
Discard(text) == SubSeq(text, 2, Len(text))

\* The for loop as it would be without its break: the last pattern that
\* matches wins.
FirstMatch_last(text) ==
    LET hits == {n \in 1..Len(TokenTypes) : MatchEnd(TokenTypes[n], text) > 0}
    IN  IF hits = {} THEN 0 ELSE CHOOSE n \in hits : \A m \in hits : n >= m

\* The for loop over TOKEN_TYPES: the index of the first pattern that
\* matches, 0 when none does.
FirstMatch(text) ==
    LET hits == {n \in 1..Len(TokenTypes) : MatchEnd(TokenTypes[n], text) > 0}
    IN  IF hits = {} THEN 0 ELSE CHOOSE n \in hits : \A m \in hits : n <= m

\* str.lstrip()
LStrip(text) == SubSeq(text, Run(text, 1, Whitespace) + 1, Len(text))

\* re.sub(r'/\*[\s\S]*?\*/', '', text) from position i on: a comment runs from
\* "/*" to the first "*/" behind it and is dropped.
RECURSIVE StripMultiFrom(_, _)
StripMultiFrom(text, i) ==
    IF i > Len(text) THEN <<>>
    ELSE LET closes == {j \in (i + 2)..(Len(text) - 1) :
                           text[j] = "*" /\ text[j + 1] = "/"}
         IN  IF /\ i + 1 <= Len(text)
                /\ text[i] = "/"
                /\ text[i + 1] = "*"
                /\ closes # {}
             THEN StripMultiFrom(text,
                                 (CHOOSE j \in closes : \A m \in closes : j <= m) + 2)
             ELSE <<text[i]>> \o StripMultiFrom(text, i + 1)

StripMulti(text) == StripMultiFrom(text, 1)

\* re.sub(r'//.*', '', text) from position i on: a comment runs from "//" up
\* to the end of the line, and the newline stays.
RECURSIVE StripSingleFrom(_, _)
StripSingleFrom(text, i) ==
    IF i > Len(text) THEN <<>>
    ELSE IF i + 1 <= Len(text) /\ text[i] = "/" /\ text[i + 1] = "/"
    THEN LET line == CHOOSE k \in 0..(Len(text) - i - 1) :
                         /\ \A j \in (i + 2)..(i + 1 + k) : text[j] # "\n"
                         /\ i + 2 + k > Len(text) \/ text[i + 2 + k] = "\n"
         IN  StripSingleFrom(text, i + 2 + line)
    ELSE <<text[i]>> \o StripSingleFrom(text, i + 1)

StripSingle(text) == StripSingleFrom(text, 1)

(***************************************************************************)
(* Lexer.tokenize, one action; the scan loop takes one step an iteration.  *)
(* `trail` records what each iteration removed from the text: the          *)
(* whitespace lstrip() dropped, then the matched text or the one character *)
(* skipped.                                                                *)
(***************************************************************************)
Piece(kind, text) == [kind |-> kind, text |-> text]

\* The whitespace in front of text, as the pieces to record for it.
Stripped(text) ==
    IF LStrip(text) = text THEN <<>>
    ELSE <<Piece("space", SubSeq(text, 1, Len(text) - Len(LStrip(text))))>>

ParserIdle ==
    UNCHANGED <<tokens, token_index, current_token, errors, stack, result, faulted,
                reads, base, earlier>>

tokenize ==
    \/ /\ lex_pc = "remove_multi"
       /\ code' = StripMulti(code)
       /\ lex_pc' = "remove_single"
       /\ UNCHANGED <<lex_tokens, source, trail>>
       /\ ParserIdle
    \/ /\ lex_pc = "remove_single"
       /\ code' = StripSingle(code)
       /\ lex_pc' = "while"
       /\ UNCHANGED <<lex_tokens, source, trail>>
       /\ ParserIdle
    \/ /\ lex_pc = "while"
       /\ code = <<>>
       /\ lex_pc' = "return"
       /\ UNCHANGED <<code, lex_tokens, source, trail>>
       /\ ParserIdle
    \/ /\ lex_pc = "while"
       /\ code # <<>>
       /\ LStrip(code) = <<>>
       /\ code' = <<>>
       /\ trail' = trail \o Stripped(code)
       /\ lex_pc' = "return"
       /\ UNCHANGED <<lex_tokens, source>>
       /\ ParserIdle
    \/ /\ lex_pc = "while"
       /\ LStrip(code) # <<>>
       /\ FirstMatch(LStrip(code)) # 0
       /\ LET text == LStrip(code)
              token_type == TokenTypes[FirstMatch(text)]
              value == MatchGroup(token_type, text)
          IN  /\ lex_tokens' = Append(lex_tokens, <<token_type, value>>)
              /\ code' = SubSeq(text, MatchEnd(token_type, text) + 1, Len(text))
              /\ trail' = trail \o Stripped(code) \o
                          <<Piece("token", SubSeq(text, 1, Len(text) - Len(code')))>>
       /\ UNCHANGED <<lex_pc, source>>
       /\ ParserIdle
    \/ /\ lex_pc = "while"
       /\ LStrip(code) # <<>>
       /\ FirstMatch(LStrip(code)) = 0
       /\ LET text == LStrip(code)
          IN  /\ code' = Discard(text)
              /\ trail' = trail \o Stripped(code) \o
                          <<Piece("skipped", SubSeq(text, 1, Len(text) - Len(code')))>>
       /\ UNCHANGED <<lex_tokens, lex_pc, source>>
       /\ ParserIdle
    \/ /\ lex_pc = "return"
       /\ lex_pc' = "done"
       /\ UNCHANGED <<code, lex_tokens, source, trail>>
       /\ ParserIdle

(***************************************************************************)
(* The inputs of the Lexer.                                                *)
(***************************************************************************)
MaxText == 2

LexChars == {"i", "f", "1", ".", "<", "=", " ", "\"", "/", "*", "\n", "@"}

SampleInclude == <<"#", "i", "n", "c", "l", "u", "d", "e", " ", "<", "a", ">">>

SampleDefine == <<"#", " ", "d", "e", "f", "i", "n", "e", " ", "N", " ", "1">>

SampleFloat == <<"i", "n", "t", " ", "x", "=", "3", ".", "1", "4", ";">>

SampleShift == <<"a", "<", "<", "b", ">", "=", "c", "+", "+", ";">>

SampleString == <<"\"", "s", "\\", "\"", "t", "\"", " ", "y", "\"">>

SampleComments ==
    <<"/", "*", "c", "*", "/", "x", " ", "/", "/", "y", "\n", "z">>

SampleMixed == <<"i", "f", "(", "x", "1", ")", "{", "3", "x", "}", "\t", "@">>

SampleCompare == <<"i", "f", "(", "x", "<", "1", ".", "5", ")">>

Samples ==
    {SampleInclude, SampleDefine, SampleFloat, SampleShift, SampleString,
     SampleComments, SampleMixed, SampleCompare}

EditChars == {"1", " ", "\"", "/", "*", "\n"}

\* The texts one character away from text.
CharEdits(text) ==
    UNION {{SubSeq(text, 1, i - 1) \o SubSeq(text, i + 1, Len(text)) :
               i \in 1..Len(text)},
           {[text EXCEPT ![i] = c] : i \in 1..Len(text), c \in EditChars},
           {SubSeq(text, 1, i) \o <<c>> \o SubSeq(text, i + 1, Len(text)) :
               i \in 0..Len(text), c \in EditChars}}

Texts ==
    UNION {SeqsUpTo(LexChars, MaxText),
           Samples,
           UNION {CharEdits(text) : text \in Samples}}

\* No Parser is at work while the Lexer runs.
ParserOff ==
    /\ tokens = <<>>
    /\ token_index = 0
    /\ current_token = None
    /\ errors = <<>>
    /\ stack = <<>>
    /\ result = "idle"
    /\ faulted = FALSE
    /\ reads = {}
    /\ base = BaseDepth
    /\ earlier = <<>>

\* Lexer(code): the constructor keeps the text and starts with no token;
\* tokenize() is about to run.
LexerInit ==
    /\ source \in Texts
    /\ code = source
    /\ lex_tokens = <<>>
    /\ lex_pc = "remove_multi"
    /\ trail = <<>>
    /\ ParserOff

LexerNext == tokenize

LexerSpec == LexerInit /\ [][LexerNext]_vars

\* tokenize() runs on without a pause: no step of it waits for anything.
LexerFairSpec == LexerSpec /\ WF_vars(LexerNext)

(***************************************************************************)
(* Properties of the Lexer.                                                *)
(***************************************************************************)

\* C9: tokenize() terminates, every iteration of its loop leaves the text
\* shorter than it found it, and no token it emits has an empty lexeme.
C9_TokenizeTerminates ==
    /\ <>(lex_pc = "done")
    /\ [][(lex_pc = "while" /\ lex_pc' = "while") =>
              /\ Len(code') < Len(code)
              /\ \A n \in 1..Len(lex_tokens') : lex_tokens'[n][2] # <<>>]_vars

C9_Witness ==
    /\ lex_pc = "done"
    /\ Len(source) = Len(SampleMixed)
    /\ Len(lex_tokens) >= 3
    /\ \E n \in 1..Len(trail) : trail[n].kind = "skipped"
    /\ \E n \in 1..Len(trail) : trail[n].kind = "space"

\* The lexemes of toks in the places of the "token" pieces, between the
\* characters the other pieces dropped.
RECURSIVE Interleaved(_, _)
Interleaved(pieces, toks) ==
    IF pieces = <<>> THEN <<>>
    ELSE IF Head(pieces).kind = "token"
    THEN (IF toks = <<>> THEN <<>> ELSE Head(toks)[2])
         \o Interleaved(Tail(pieces), IF toks = <<>> THEN <<>> ELSE Tail(toks))
    ELSE Head(pieces).text \o Interleaved(Tail(pieces), toks)

\* C10: the lexemes of the tokens, in the order emitted and between the
\* characters the scan dropped, followed by the text still to scan, are the
\* input without its comments: no character is lost, doubled or moved.
C10_LexemesReproduceInput ==
    lex_pc \in {"while", "return", "done"} =>
        /\ Cardinality({n \in 1..Len(trail) : trail[n].kind = "token"})
               = Len(lex_tokens)
        /\ Interleaved(trail, lex_tokens) \o code = StripSingle(StripMulti(source))

C10_Witness ==
    /\ lex_pc = "done"
    /\ source = SampleComments
    /\ Len(lex_tokens) = 2
    /\ code = <<>>

\* The place of a category in TOKEN_TYPES.
Order(token_type) == CHOOSE n \in 1..Len(TokenTypes) : TokenTypes[n] = token_type

\* C11: the category of a token is that of the first pattern, in the order
\* of TOKEN_TYPES, that matches where the scan stands: a keyword is a KEYWORD
\* and not an IDENTIFIER, digits-dot-digits is one CONSTANT_FLOAT, and a lone
\* "<" or ">" is an OPERATOR; no PUNCTUATOR token is ever "<" or ">".
C11_FirstPatternWins ==
    /\ [](\A n \in 1..Len(lex_tokens) :
             lex_tokens[n] \notin {<<"PUNCTUATOR", <<"<">> >>, <<"PUNCTUATOR", <<">">> >>})
    /\ [][lex_tokens' # lex_tokens =>
              LET text == LStrip(code)
                  token == lex_tokens'[Len(lex_tokens')]
              IN  /\ Len(lex_tokens') = Len(lex_tokens) + 1
                  /\ MatchEnd(token[1], text) > 0
                  /\ \A m \in 1..(Order(token[1]) - 1) :
                         MatchEnd(TokenTypes[m], text) = 0
                  /\ KeywordLen(text) > 0 => token[1] = "KEYWORD"
                  /\ FloatLen(text) > 0 =>
                         token = <<"CONSTANT_FLOAT", SubSeq(text, 1, FloatLen(text))>>
                  /\ text[1] \in {"<", ">"} => token[1] = "OPERATOR"]_vars

C11_Witness ==
    /\ lex_pc = "done"
    /\ source = SampleCompare
    /\ lex_tokens = << <<"KEYWORD", <<"i", "f">> >>, <<"PUNCTUATOR", <<"(">> >>,
                       <<"IDENTIFIER", <<"x">> >>, <<"OPERATOR", <<"<">> >>,
                       <<"CONSTANT_FLOAT", <<"1", ".", "5">> >>,
                       <<"PUNCTUATOR", <<")">> >> >>

\* C12: where the text to scan starts with one of the two-character
\* operator forms, the scan emits that form as one OPERATOR token, never two
\* one-character tokens: "<<" is one token.
C12_TwoCharacterOperators ==
    [][(lex_pc = "while" /\ \E n \in 1..Len(TwoCharOperators) :
                               StartsWith(LStrip(code), TwoCharOperators[n])) =>
           \E n \in 1..Len(TwoCharOperators) :
               /\ StartsWith(LStrip(code), TwoCharOperators[n])
               /\ lex_tokens' = Append(lex_tokens, <<"OPERATOR", TwoCharOperators[n]>>)
               /\ code' = SubSeq(LStrip(code), 3, Len(LStrip(code)))]_vars

C12_Witness ==
    /\ lex_pc = "done"
    /\ source = SampleShift
    /\ lex_tokens = << <<"IDENTIFIER", <<"a">> >>, <<"OPERATOR", <<"<", "<">> >>,
                       <<"IDENTIFIER", <<"b">> >>, <<"OPERATOR", <<">", "=">> >>,
                       <<"IDENTIFIER", <<"c">> >>, <<"OPERATOR", <<"+", "+">> >>,
                       <<"PUNCTUATOR", <<";">> >> >>

(***************************************************************************)
(* Properties of the statement loop and of the error list.                 *)
(***************************************************************************)
\* statement_list() calls statement() in this step.
StatementAttempt ==
    /\ stack # <<>>
    /\ Top \in {"statement_list_0", "statement_list_2"}
    /\ stack' = Call("statement_list_1", "statement_0")

\* C14: within one call of statement_list(), statement() is called only
\* while there is a current token whose lexeme is not "}", and the loop ends
\* right after a call of statement() that leaves the error list non-empty.
C14_StatementListLoop ==
    [][/\ StatementAttempt =>
              current_token # None /\ TokValue(current_token) # "}"
       /\ (At("statement_list_1") /\ errors # <<>>) =>
              stack' = Return]_vars

ExampleOutputNoSemicolon ==
    Header \o <<tCout, tShl, tX, tShl, tEndl, tReturn, tZero, tSemi, tRBrace>>

C14_Witness ==
    /\ tokens = ExampleOutputNoSemicolon
    /\ stack # <<>>
    /\ Top = "block_2"
    /\ current_token = tReturn
    /\ Len(errors) = 1

\* C15, as stated: once the error list is non-empty, statement() is not
\* called again anywhere in that parse().
C15_NoStatementAfterError ==
    [][StatementAttempt => errors = <<>>]_vars

\* C15, as the code has it: once the error list is non-empty no loop of
\* statement_list() goes on to a further statement, that of an enclosing
\* block included; statement() is then called only as the first statement
\* of a statement_list() entered after the entry was logged.
C15_NoLaterStatementInLoop ==
    /\ []((stack # <<>> /\ Top = "statement_list_2") => errors = <<>>)
    /\ [][(StatementAttempt /\ errors # <<>>) => Top = "statement_list_0"]_vars

ExampleOutputNoName ==
    <<tInt, tLParen, tRParen, tLBrace>>
        \o <<tCout, tShl, tX, tShl, tEndl, tSemi, tReturn, tZero, tSemi, tRBrace>>

C15_Witness ==
    /\ tokens = ExampleOutputNoName
    /\ stack # <<>>
    /\ Top = "statement_0"
    /\ current_token = tCout
    /\ Len(errors) = 1

\* C16: a step that appends to the error list leaves the cursor and the
\* current token as they are, whichever procedure logs; on the path of
\* statement() for a token that starts no statement the entry is appended
\* first and the step after it moves the cursor by exactly one.
C16_ErrorsKeepCursor ==
    /\ [][errors' # errors =>
              /\ token_index' = token_index
              /\ current_token' = current_token]_vars
    /\ []((stack # <<>> /\ Top = "statement_consume") =>
              /\ errors # <<>>
              /\ LastError = [index |-> token_index, message |-> StatementExpected])
    /\ [][At("statement_consume") =>
              /\ token_index' = token_index + 1
              /\ errors' = errors]_vars

C16_Witness ==
    /\ stack # <<>>
    /\ Top = "statement_list_1"
    /\ errors # <<>>
    /\ LastError = [index |-> token_index - 1, message |-> StatementExpected]
    /\ \E n \in 1..Len(errors) : errors[n].message = FactorExpected

\* statement() stands at an identifier whose next token starts neither an
\* assignment nor an output.
NeitherAssignmentNorOutput ==
    /\ At("statement_1")
    /\ TokValue(TokenAt(token_index + 1)) # "="
    /\ ~(TokType(TokenAt(token_index + 1)) = "OPERATOR"
            /\ TokValue(TokenAt(token_index + 1)) = "<<")

\* C17, as stated: the entry "Expected AssignmentStatement or
\* OutputStatement." is followed by the entry of the last else of
\* statement() for the same token, and the cursor moves on by one.
C17_FallsThrough ==
    result # "running" =>
        \A n \in 1..Len(errors) :
            errors[n].message = AssignmentOrOutputExpected =>
                /\ n < Len(errors)
                /\ errors[n + 1] = [index |-> errors[n].index,
                                    message |-> StatementExpected]
                /\ token_index > errors[n].index

\* C17, as the code has it: for an identifier whose next token starts
\* neither an assignment nor an output, statement() appends the one entry
\* "Expected AssignmentStatement or OutputStatement." and returns, the
\* cursor where it was; the entry of the last else never follows it.  For an
\* identifier that is the last token it appends the end-of-file entry and
\* returns likewise.
C17_IdentifierDispatchError ==
    /\ [][NeitherAssignmentNorOutput =>
              /\ errors' = Append(errors, [index |-> token_index,
                                           message |-> AssignmentOrOutputExpected])
              /\ token_index' = token_index
              /\ current_token' = current_token
              /\ stack' = Return]_vars
    /\ [][(/\ At("statement_0")
           /\ current_token # None
           /\ TokType(current_token) = "IDENTIFIER"
           /\ token_index + 1 = Len(tokens)) =>
              /\ errors' = Append(errors, [index |-> token_index,
                                           message |-> AssignmentOrOutputAtEnd])
              /\ token_index' = token_index
              /\ current_token' = current_token
              /\ stack' = Return]_vars
    /\ [](\A n \in 1..(Len(errors) - 1) :
             errors[n].message = AssignmentOrOutputExpected =>
                 errors[n + 1].message # StatementExpected)

C17_Witness ==
    /\ result = "failure"
    /\ token_index = Len(Header)
    /\ current_token = tX
    /\ Len(errors) = 3
    /\ errors[1] = [index |-> Len(Header), message |-> AssignmentOrOutputExpected]
    /\ errors[2].message = MatchMessage("PUNCTUATOR", <<"}">>, tX)

\* C18: an entry of the error list carries the cursor as it stood when the
\* entry was appended; so the indices of the list never decrease along it,
\* and each lies between 0 and the number of tokens.
C18_EntriesCarryCursor ==
    /\ [][errors' # errors =>
              /\ Len(errors') = Len(errors) + 1
              /\ errors'[Len(errors')].index = token_index
              /\ token_index' = token_index]_vars
    /\ [](\A n \in 1..Len(errors) : errors[n].index \in 0..Len(tokens))
    /\ [](\A n \in 1..(Len(errors) - 1) : errors[n].index <= errors[n + 1].index)

C18_Witness ==
    /\ result = "failure"
    /\ Len(errors) >= 3
    /\ errors[1].index = 0
    /\ errors[1].index < errors[2].index
    /\ LastError.index = Len(tokens)
    /\ token_index = Len(tokens)

\* C19: for a token list the Lexer can produce, parse() returns success
\* only if Program derives the whole list (a sentence by construction, or
\* one the recognizer accepts).
C19_SuccessOnlyForSentences ==
    (result = "success" /\ ScannerProducible(tokens)) =>
        (tokens \in Sentences \/ Derivable(tokens))

\* C20: every subscript of the token list is in range: the current token
\* is loaded from the cursor only when the cursor is less than the number of
\* tokens (it is None otherwise), the lookahead of statement() reads the
\* cursor plus one only when that is less than the number of tokens, and
\* the except clause of parse() is reached only from a call that found no
\* frame left, never from a subscript.
C20_ReadsInBounds ==
    /\ [](\A i \in reads : 0 <= i /\ i < Len(tokens))
    /\ [][token_index' # token_index =>
              IF token_index' < Len(tokens)
              THEN reads' = {token_index'} /\ current_token' = TokenAt(token_index')
              ELSE reads' = {} /\ current_token' = None]_vars
    /\ [][(reads' # {} /\ token_index' = token_index) =>
              /\ At("statement_0")
              /\ TokType(current_token) = "IDENTIFIER"
              /\ reads' = {token_index + 1}]_vars
    /\ [][(stack # <<>> /\ Top # "parse_except" /\ stack' = <<"parse_except">>) =>
              ~Room(2)]_vars

C20_Witness ==
    /\ stack # <<>>
    /\ Top = "statement_1"
    /\ reads = {token_index + 1}
    /\ token_index + 2 = Len(tokens)
    /\ TokenAt(token_index + 1) = tX

(***************************************************************************)
(* Properties of two runs.                                                 *)
(***************************************************************************)

\* C13: a second run of parse() on the same token list, by a fresh Parser,
\* returns the verdict and the error list of the first run, and no step of
\* either run changes the token list.
C13_RunsAgree ==
    /\ [][tokens' = tokens]_vars
    /\ []((earlier # <<>> /\ result # "running") =>
              /\ result = earlier[1].result
              /\ errors = earlier[1].errors)

====
